---------------------------- MODULE Spec2Model ----------------------------
(* A model of src/nba_scraper.py: the season harvesting pipeline            *)
(* (get_stat_url, scrape_nba_stats, save_to_csv, scrape_multiple_seasons,   *)
(* main).                                                                   *)
(*                                                                          *)
(* Python strings that the program formats, slices or replaces are          *)
(* sequences of one-character strings; an optional value (None or a value)  *)
(* is the empty sequence or a one-element sequence.                         *)
EXTENDS Integers, Sequences, FiniteSets, TLC

VARIABLES
    args,        \* the Namespace returned by parse_arguments()
    pc,          \* the position of the single thread of control
    year,        \* the season being processed (loop variable / argument)
    response,    \* the value requests.get returned, while it is examined
    df,          \* the DataFrame scrape_nba_stats returned (or None)
    results,     \* scrape_multiple_seasons: the dict year -> filename
    files,       \* the working directory: file name -> content
    elapsed,     \* logical time slept since the last requests.get (None before the first)
    lastDelay,   \* the time.sleep completed since the last requests.get (None: none)
    season,      \* per season: calls of scrape_nba_stats, of requests.get, stage reached
    delays,      \* number of season-boundary sleeps performed
    exitStatus,  \* the status the process ended with (None while running)
    fin,         \* the arguments of a function applied on its own
    fout         \* its result

mvars == <<args, pc, year, response, df, results, files, elapsed, lastDelay,
           season, delays, exitStatus>>
fvars == <<fin, fout>>
vars == <<args, pc, year, response, df, results, files, elapsed, lastDelay,
          season, delays, exitStatus, fin, fout>>

-----------------------------------------------------------------------------
(* Optional values and strings *)

None == <<>>
Some(x) == <<x>>
Get(o) == o[1]

RECURSIVE Concat(_)
Concat(ss) == IF ss = <<>> THEN <<>> ELSE Head(ss) \o Concat(Tail(ss))

DigitChar(d) == <<"0", "1", "2", "3", "4", "5", "6", "7", "8", "9">>[d + 1]

RECURSIVE StrNat(_)
StrNat(n) == IF n < 10 THEN <<DigitChar(n)>>
             ELSE StrNat(n \div 10) \o <<DigitChar(n % 10)>>

\* str(n) of a Python int
Str(n) == IF n < 0 THEN <<"-">> \o StrNat(0 - n) ELSE StrNat(n)

\* s[-2:]
LastTwo(s) == IF Len(s) <= 2 THEN s ELSE SubSeq(s, Len(s) - 1, Len(s))

\* s.replace(old, new) for a non-empty old: leftmost, non-overlapping
RECURSIVE Replace(_, _, _)
Replace(s, old, new) ==
    IF Len(s) < Len(old) THEN s
    ELSE IF SubSeq(s, 1, Len(old)) = old
         THEN new \o Replace(SubSeq(s, Len(old) + 1, Len(s)), old, new)
         ELSE <<Head(s)>> \o Replace(Tail(s), old, new)

IsSpace(c) == c \in {" ", "\n", "\t"}

RECURSIVE LStrip(_)
LStrip(s) == IF s # <<>> /\ IsSpace(Head(s)) THEN LStrip(Tail(s)) ELSE s

RECURSIVE RStrip(_)
RStrip(s) == IF s # <<>> /\ IsSpace(s[Len(s)])
             THEN RStrip(SubSeq(s, 1, Len(s) - 1)) ELSE s

\* s.strip()
Strip(s) == RStrip(LStrip(s))

-----------------------------------------------------------------------------
(* The stat types and the names derived from them *)

per_game    == <<"p","e","r","_","g","a","m","e">>
totals      == <<"t","o","t","a","l","s">>
per_36min   == <<"p","e","r","_","3","6","m","i","n">>
per_100poss == <<"p","e","r","_","1","0","0","p","o","s","s">>
advanced    == <<"a","d","v","a","n","c","e","d">>
per_minute  == <<"p","e","r","_","m","i","n","u","t","e">>
per_poss    == <<"p","e","r","_","p","o","s","s">>

\* the choices argparse accepts for stat_type
StatTypes == {per_game, totals, per_36min, per_100poss, advanced}

\* stat_type_map of get_stat_url
stat_type_map ==
    [k \in StatTypes |->
        CASE k = per_game    -> per_game
          [] k = totals      -> totals
          [] k = per_36min   -> per_minute
          [] k = per_100poss -> per_poss
          [] k = advanced    -> advanced]

\* stat_type_map.get(stat_type, 'per_game')
UrlSegment(stat_type) ==
    IF stat_type \in DOMAIN stat_type_map THEN stat_type_map[stat_type]
    ELSE per_game

UrlPrefix == <<"h","t","t","p","s",":","/","/","w","w","w",".","b","a","s","k","e","t","b","a","l","l","-","r","e","f","e","r","e","n","c","e",".","c","o","m","/","l","e","a","g","u","e","s","/","N","B","A","_">>

get_stat_url(season_end_year, stat_type) ==
    Concat(<<UrlPrefix, Str(season_end_year), <<"_">>, UrlSegment(stat_type),
             <<".","h","t","m","l">>>>)

\* a table id made of the stat type as given, without the two replacements
TableIdUnmapped(stat_type) == stat_type \o <<"_","s","t","a","t","s">>

\* table_id of scrape_nba_stats
TableId(stat_type) ==
    Replace(Replace(stat_type, per_36min, per_minute), per_100poss, per_poss)
        \o <<"_","s","t","a","t","s">>

\* a file name that leaves the stat type out
FileNameWithoutStatType(season_end_year, stat_type) ==
    Concat(<<<<"n","b","a","_","p","l","a","y","e","r","_","s","t","a","t","s","_">>,
             Str(season_end_year - 1), <<"_">>, LastTwo(Str(season_end_year)),
             <<".","c","s","v">>>>)

\* a file name whose season part is the year modulo 100, as a number
FileNameModulo(season_end_year, stat_type) ==
    Concat(<<<<"n","b","a","_","p","l","a","y","e","r","_","s","t","a","t","s","_">>,
             Str(season_end_year - 1), <<"_">>, Str(season_end_year % 100),
             <<"_">>, stat_type, <<".","c","s","v">>>>)

\* filename of save_to_csv
FileName(season_end_year, stat_type) ==
    Concat(<<<<"n","b","a","_","p","l","a","y","e","r","_","s","t","a","t","s","_">>,
             Str(season_end_year - 1), <<"_">>, LastTwo(Str(season_end_year)),
             <<"_">>, stat_type, <<".","c","s","v">>>>)

\* the bounds main checks the season years against
MinYear == 1950
MaxYear == 2025

-----------------------------------------------------------------------------
(* The page and its parse (scrape_nba_stats, lines 141-193)                 *)
(*                                                                          *)
(* A page is the sequence of its table elements in document order.  A table *)
(* is [id, thead, tbody]: thead is None or the texts of the th elements     *)
(* under it, tbody is None or its tr elements.  A tr is [class, cells]: the *)
(* values of its class attribute (empty: no attribute) and the raw texts of *)
(* its th/td elements.                                                      *)

\* a find that ignores the id and returns the first table of the page
FindAnyTable(page, table_id) ==
    IF page = <<>> THEN None ELSE Some(Head(page))

\* soup.find('table', {'id': table_id}): the first such table, or None
RECURSIVE Find(_, _)
Find(page, table_id) ==
    IF page = <<>> THEN None
    ELSE IF Head(page).id = table_id THEN Some(Head(page))
         ELSE Find(Tail(page), table_id)

\* lines 153-159: the stripped, non-empty header texts, in order
RECURSIVE ExtractHeaders(_)
ExtractHeaders(header_row) ==
    IF header_row = <<>> THEN <<>>
    ELSE LET col_name == Strip(Head(header_row))
         IN  (IF col_name # <<>> THEN <<col_name>> ELSE <<>>)
                 \o ExtractHeaders(Tail(header_row))

\* class_=lambda x: x != 'thead' of find_all: the filter is tried on None for a
\* tr without class, else on each class value and on the whole attribute
ClassFilter(tr) ==
    \/ tr.class = <<>>
    \/ \E i \in 1..Len(tr.class) : tr.class[i] # "thead"
    \/ Len(tr.class) > 1

\* line 168: 'class' in row.attrs and 'thead' in row.attrs['class']
IsHeaderRow(tr) == \E i \in 1..Len(tr.class) : tr.class[i] = "thead"

\* lines 172-178: the stripped texts of the cells of a row
PlayerData(tr) == [i \in 1..Len(tr.cells) |-> Strip(tr.cells[i])]

\* an extraction that keeps every row holding a cell (player_data alone)
RECURSIVE ExtractRowsKeepingSingles(_)
ExtractRowsKeepingSingles(trs) ==
    IF trs = <<>> THEN <<>>
    ELSE LET row == Head(trs)
             player_data == PlayerData(row)
         IN  (IF /\ ClassFilter(row)
                 /\ ~IsHeaderRow(row)
                 /\ player_data # <<>>
              THEN <<player_data>> ELSE <<>>)
                 \o ExtractRowsKeepingSingles(Tail(trs))

\* lines 164-182: the rows kept from the body
RECURSIVE ExtractRows(_)
ExtractRows(trs) ==
    IF trs = <<>> THEN <<>>
    ELSE LET row == Head(trs)
             player_data == PlayerData(row)
         IN  (IF /\ ClassFilter(row)
                 /\ ~IsHeaderRow(row)
                 /\ player_data # <<>>
                 /\ Len(player_data) > 1
              THEN <<player_data>> ELSE <<>>) \o ExtractRows(Tail(trs))

RECURSIVE MaxLen(_)
MaxLen(rows) ==
    IF rows = <<>> THEN 0
    ELSE LET m == MaxLen(Tail(rows))
         IN  IF Len(Head(rows)) > m THEN Len(Head(rows)) ELSE m

\* a DataFrame that drops the rows whose length is not the number of columns
DataFrameDroppingRows(rows, columns) ==
    Some([columns |-> columns,
          data |-> LET fit == SelectSeq(rows, LAMBDA r : Len(r) = Len(columns))
                   IN  [i \in 1..Len(fit) |->
                           [j \in 1..Len(columns) |-> Some(fit[i][j])]]])

\* line 185, pd.DataFrame(rows, columns=headers) on a list of lists: no rows
\* give an empty frame with these columns; else every row is filled with None
\* up to the longest row, and a ValueError is raised (None here) unless that
\* length is the number of columns.  A cell of the frame is None or a text.
DataFrame(rows, columns) ==
    IF rows = <<>> THEN Some([columns |-> columns, data |-> <<>>])
    ELSE IF MaxLen(rows) # Len(columns) THEN None
    ELSE Some([columns |-> columns,
               data |-> [i \in 1..Len(rows) |->
                           [j \in 1..Len(columns) |->
                               IF j <= Len(rows[i]) THEN Some(rows[i][j])
                               ELSE None]]])

\* a parse that takes every 2xx status for a success
ParseResponseAny2xx(resp, stat_type) ==
    IF resp.status \div 100 # 2 THEN [tag |-> "http_error", df |-> None]
    ELSE LET table == Find(resp.page, TableId(stat_type))
         IN  IF table = None THEN [tag |-> "no_table", df |-> None]
             ELSE IF Get(table).thead = None \/ Get(table).tbody = None
                  THEN [tag |-> "error", df |-> None]
                  ELSE LET headers == ExtractHeaders(Get(Get(table).thead))
                           rows == ExtractRows(Get(Get(table).tbody))
                           frame == DataFrame(rows, headers)
                       IN  IF frame = None THEN [tag |-> "error", df |-> None]
                           ELSE [tag |-> "ok", df |-> frame]

\* lines 141-197 on a received response: what scrape_nba_stats returns, with
\* the branch taken.  "error" is the except clause (find('thead') or
\* find('tbody') returned None, or the DataFrame constructor raised).
ParseResponse(resp, stat_type) ==
    IF resp.status # 200 THEN [tag |-> "http_error", df |-> None]
    ELSE LET table == Find(resp.page, TableId(stat_type))
         IN  IF table = None THEN [tag |-> "no_table", df |-> None]
             ELSE IF Get(table).thead = None \/ Get(table).tbody = None
                  THEN [tag |-> "error", df |-> None]
                  ELSE LET headers == ExtractHeaders(Get(Get(table).thead))
                           rows == ExtractRows(Get(Get(table).tbody))
                           frame == DataFrame(rows, headers)
                       IN  IF frame = None THEN [tag |-> "error", df |-> None]
                           ELSE [tag |-> "ok", df |-> frame]

-----------------------------------------------------------------------------
(* Writing the file (save_to_csv) *)

\* df.to_csv(filename, index=False): the header record, then one record per
\* row, a missing cell written as the empty text
ToCsv(frame) ==
    <<frame.columns>> \o
    [i \in 1..Len(frame.data) |->
        [j \in 1..Len(frame.data[i]) |->
            IF frame.data[i][j] = None THEN <<>> ELSE Get(frame.data[i][j])]]

\* a write that adds the records to what the file holds
AppendFile(dir, filename, records) ==
    [f \in DOMAIN dir \cup {filename} |->
        IF f = filename
        THEN (IF f \in DOMAIN dir THEN dir[f] ELSE <<>>) \o records
        ELSE dir[f]]

\* the file opened for writing (created or truncated) and holding the records
WriteFile(dir, filename, records) ==
    [f \in DOMAIN dir \cup {filename} |->
        IF f = filename THEN records ELSE dir[f]]

\* save_to_csv(df, season_end_year, stat_type) in directory dir: the possible
\* outcomes [files, filename].  The write succeeds, or raises before the file
\* is opened (the directory is untouched), or raises after k records (the
\* file holds them); an exception makes the function return None.
save_to_csv(dir, frame, season_end_year, stat_type) ==
    LET filename == FileName(season_end_year, stat_type)
        records == ToCsv(frame)
    IN  {[files |-> WriteFile(dir, filename, records), filename |-> Some(filename)],
         [files |-> dir, filename |-> None]}
        \cup {[files |-> WriteFile(dir, filename, SubSeq(records, 1, k)),
               filename |-> None] : k \in 0..Len(records)}

-----------------------------------------------------------------------------
(* The inputs of a run *)

\* the longest valid range of seasons tried
MaxSeasons == 3
\* random.random() takes the values k / RandomSteps, k in 0..RandomSteps-1;
\* the logical time is counted in ticks of 1 / RandomSteps time-unit
RandomSteps == 2

\* 2 * random.random(), in ticks: a delay without its minimum
RequestDelaysFromZero == {2 * k : k \in 0..(RandomSteps - 1)}

\* 1 + 2 * random.random(), in ticks
RequestDelays == {1 * RandomSteps + 2 * k : k \in 0..(RandomSteps - 1)}
\* 3 + 2 * random.random(), in ticks
SeasonDelays == {3 * RandomSteps + 2 * k : k \in 0..(RandomSteps - 1)}

\* a range check that forgets the two limits
ValidRangeOrderOnly(start_year, end_year) == ~(start_year > end_year)

ValidRange(start_year, end_year) ==
    ~(start_year < MinYear \/ end_year > MaxYear \/ start_year > end_year)

\* --start / --end: absent, 0, or a year; a valid range has at most MaxSeasons seasons
RangesTried ==
    {<<None, None>>, <<Some(2022), None>>, <<None, Some(2025)>>,
     <<Some(0), Some(2025)>>, <<Some(2024), Some(0)>>}
    \cup {<<Some(r[1]), Some(r[1] + r[2])>> :
            r \in {q \in {1949, 1950, 1999, 2023, 2025, 2026} \X (-3..4) :
                      ValidRange(q[1], q[1] + q[2]) => q[2] < MaxSeasons}}

SeasonsTried == {1949, 1950, 2000, 2024, 2025, 2026}
StatTypesTried == {per_game, per_36min}

ArgsTried ==
    {[multi |-> TRUE, season_end_year |-> 2024, stat_type |-> st,
      start_year |-> r[1], end_year |-> r[2]] :
        st \in StatTypesTried, r \in RangesTried}
    \cup {[multi |-> FALSE, season_end_year |-> y, stat_type |-> st,
           start_year |-> None, end_year |-> None] :
            y \in SeasonsTried, st \in StatTypesTried}

\* The pages the site may answer with for a stat type.  The statistics table
\* of a page carries the id the site derives from the page's URL segment.
SiteTableId(stat_type) == UrlSegment(stat_type) \o <<"_","s","t","a","t","s">>

OtherTable ==
    [id |-> <<"o","t","h","e","r">>,
     thead |-> Some(<<<<"X">>, <<"Y">>>>),
     tbody |-> Some(<<[class |-> <<>>, cells |-> <<<<"x">>, <<"y">>>>]>>)]

GoodTable(id) ==
    [id |-> id,
     thead |-> Some(<<<<"P">>, <<" ">>, <<" ", "T", " ">>>>),
     tbody |-> Some(<<[class |-> <<"full_table">>, cells |-> <<<<" ", "A">>, <<"1">>>>],
                      [class |-> <<"thead">>, cells |-> <<<<"P">>, <<"T">>>>],
                      [class |-> <<>>, cells |-> <<<<"B">>>>]>>)]

RaggedTable(id) ==
    [id |-> id,
     thead |-> Some(<<<<"P">>, <<"T">>>>),
     tbody |-> Some(<<[class |-> <<>>, cells |-> <<<<"A">>, <<"1">>, <<"2">>>>]>>)]

HeadlessTable(id) ==
    [id |-> id, thead |-> None,
     tbody |-> Some(<<[class |-> <<>>, cells |-> <<<<"A">>, <<"1">>>>]>>)]

PagesTried(stat_type) ==
    {<<OtherTable, GoodTable(SiteTableId(stat_type))>>,
     <<OtherTable>>,
     <<RaggedTable(SiteTableId(stat_type))>>,
     <<HeadlessTable(SiteTableId(stat_type))>>}

\* what requests.get may return: status 200 with a page, or another status
ResponsesTried(stat_type) ==
    {[status |-> 200, page |-> p] : p \in PagesTried(stat_type)}
    \cup {[status |-> 404, page |-> <<>>],
          [status |-> 203, page |-> <<GoodTable(SiteTableId(stat_type))>>]}

-----------------------------------------------------------------------------
(* The run *)

NoSeasons == <<>>
NewSeason == [calls |-> 0, gets |-> 0, stage |-> "none"]

SeasonOf(y) == IF y \in DOMAIN season THEN season[y] ELSE NewSeason

WithSeason(y, rec) ==
    [z \in DOMAIN season \cup {y} |-> IF z = y THEN rec ELSE season[z]]

WithStage(y, stage) == WithSeason(y, [SeasonOf(y) EXCEPT !.stage = stage])

\* bool(x) of an optional int
Truthy(x) == x # None /\ Get(x) # 0

MainIdle ==
    /\ pc = "main"
    /\ year = 0
    /\ response = None
    /\ df = None
    /\ results = <<>>
    /\ elapsed = None
    /\ lastDelay = None
    /\ season = NoSeasons
    /\ delays = 0
    /\ exitStatus = None

\* the first season a run with these arguments would write
FirstSeason(a) ==
    IF a.multi /\ a.start_year # None THEN Get(a.start_year) ELSE a.season_end_year

\* what an earlier run may have left under an output name
OldRecords == <<<<<<"o","l","d">>>>>>

\* the working directory at the start: empty, or holding an older output file
DirsTried(a) ==
    {<<>>, WriteFile(<<>>, FileName(FirstSeason(a), a.stat_type), OldRecords)}

Init ==
    /\ args \in ArgsTried
    /\ MainIdle
    /\ files \in DirsTried(args)
    /\ fin = None
    /\ fout = None

\* main returns: the interpreter ends with status 0
Exit ==
    /\ pc' = "exit"
    /\ exitStatus' = Some(0)

\* scrape_nba_stats(y, stat_type) is entered (lines 116-128)
\* a call that goes on to the request without the delay of lines 133-135
CallScrapeWithoutDelay(y) ==
    /\ year' = y
    /\ season' = WithSeason(y, [SeasonOf(y) EXCEPT !.calls = @ + 1,
                                                   !.stage = "called"])
    /\ pc' = "get"

CallScrape(y) ==
    /\ year' = y
    /\ season' = WithSeason(y, [SeasonOf(y) EXCEPT !.calls = @ + 1,
                                                   !.stage = "called"])
    /\ pc' = "sleep"

\* main, lines 296-330: the checks on the arguments, then the mode's entry
Main ==
    /\ pc = "main"
    /\ IF args.multi
       THEN IF Truthy(args.start_year) /\ Truthy(args.end_year)
            THEN IF ~ValidRange(Get(args.start_year), Get(args.end_year))
                 THEN Exit /\ UNCHANGED <<year, season>>
                 ELSE /\ pc' = "for"
                      /\ year' = Get(args.start_year) - 1
                      /\ UNCHANGED <<season, exitStatus>>
            ELSE Exit /\ UNCHANGED <<year, season>>
       ELSE IF args.season_end_year < MinYear \/ args.season_end_year > MaxYear
            THEN Exit /\ UNCHANGED <<year, season>>
            ELSE CallScrape(args.season_end_year) /\ UNCHANGED exitStatus
    /\ UNCHANGED <<args, response, df, results, files, elapsed, lastDelay, delays>>

\* a loop that walks the range from end_year down to start_year
ForSeasonDescending ==
    /\ pc = "for"
    /\ LET next == IF year = Get(args.start_year) - 1 THEN Get(args.end_year)
                   ELSE year - 1
       IN  IF next >= Get(args.start_year)
           THEN CallScrape(next) /\ UNCHANGED exitStatus
           ELSE Exit /\ UNCHANGED <<year, season>>
    /\ UNCHANGED <<args, response, df, results, files, elapsed, lastDelay, delays>>

\* a loop over range(start_year, end_year), which leaves the last season out
ForSeasonExclusive ==
    /\ pc = "for"
    /\ IF year + 1 < Get(args.end_year)
       THEN CallScrape(year + 1) /\ UNCHANGED exitStatus
       ELSE Exit /\ UNCHANGED <<year, season>>
    /\ UNCHANGED <<args, response, df, results, files, elapsed, lastDelay, delays>>

\* scrape_multiple_seasons, line 264: the next year of range(start_year,
\* end_year + 1), or the end of the loop (line 289, then main lines 313-319)
ForSeason ==
    /\ pc = "for"
    /\ IF year + 1 <= Get(args.end_year)
       THEN CallScrape(year + 1) /\ UNCHANGED exitStatus
       ELSE Exit /\ UNCHANGED <<year, season>>
    /\ UNCHANGED <<args, response, df, results, files, elapsed, lastDelay, delays>>

\* scrape_nba_stats, lines 133-135
RateLimit ==
    /\ pc = "sleep"
    /\ \E delay \in RequestDelays :
        /\ elapsed' = IF elapsed = None THEN None ELSE Some(Get(elapsed) + delay)
        /\ lastDelay' = Some([kind |-> "request", ticks |-> delay])
    /\ season' = WithStage(year, "slept")
    /\ pc' = "get"
    /\ UNCHANGED <<args, year, response, df, results, files, delays, exitStatus>>

\* a caller that gives the run up when a season has failed
SeasonOverStopping ==
    IF args.multi /\ season'[year].stage = "saved"
    THEN pc' = "season_sleep" /\ UNCHANGED exitStatus
    ELSE Exit

\* a single-season caller that runs the pipeline again when it has failed
SeasonOverRerunning ==
    IF args.multi
    THEN pc' = "season_sleep" /\ UNCHANGED exitStatus
    ELSE IF season'[year].stage = "saved"
         THEN Exit
         ELSE pc' = "sleep" /\ UNCHANGED exitStatus

\* where the caller goes when the season's body is over: line 285, or the end
\* of main
SeasonOver ==
    IF args.multi
    THEN pc' = "season_sleep" /\ UNCHANGED exitStatus
    ELSE Exit

\* a fetch that is tried again when requests.get raises
FetchRetrying ==
    /\ pc = "get"
    /\ elapsed' = Some(0)
    /\ lastDelay' = None
    /\ \/ /\ \E r \in ResponsesTried(args.stat_type) : response' = Some(r)
          /\ season' = WithSeason(year, [SeasonOf(year) EXCEPT !.gets = @ + 1,
                                                                !.stage = "fetched"])
          /\ pc' = "parse"
          /\ UNCHANGED <<df, exitStatus>>
       \/ /\ response' = None
          /\ df' = None
          /\ season' = WithSeason(year, [SeasonOf(year) EXCEPT !.gets = @ + 1,
                                                                !.stage = "fetch_error"])
          /\ pc' = "get"
          /\ UNCHANGED exitStatus
    /\ UNCHANGED <<args, year, results, files, delays>>

\* scrape_nba_stats, line 138: requests.get returns a response, or raises and
\* the except clause (lines 195-197) returns None
Fetch ==
    /\ pc = "get"
    /\ elapsed' = Some(0)
    /\ lastDelay' = None
    /\ \/ /\ \E r \in ResponsesTried(args.stat_type) : response' = Some(r)
          /\ season' = WithSeason(year, [SeasonOf(year) EXCEPT !.gets = @ + 1,
                                                                !.stage = "fetched"])
          /\ pc' = "parse"
          /\ UNCHANGED <<df, exitStatus>>
       \/ /\ response' = None
          /\ df' = None
          /\ season' = WithSeason(year, [SeasonOf(year) EXCEPT !.gets = @ + 1,
                                                                !.stage = "fetch_error"])
          /\ SeasonOver
    /\ UNCHANGED <<args, year, results, files, delays>>

\* scrape_nba_stats, lines 141-197 on the response, and the caller's test of
\* the value returned (lines 272, 281 / 332, 341)
Parse ==
    /\ pc = "parse"
    /\ LET out == ParseResponse(Get(response), args.stat_type)
       IN  /\ df' = out.df
           /\ season' = WithStage(year, IF out.tag = "ok" THEN "extracted" ELSE out.tag)
           /\ IF out.df # None
              THEN pc' = "save" /\ UNCHANGED exitStatus
              ELSE SeasonOver
    /\ response' = None
    /\ UNCHANGED <<args, year, results, files, elapsed, lastDelay, delays>>

\* a caller that enters every season in results, saved or not
SaveRecordingFailures ==
    /\ pc = "save"
    /\ \E out \in save_to_csv(files, Get(df), year, args.stat_type) :
        /\ files' = out.files
        /\ results' = IF args.multi
                      THEN [y \in DOMAIN results \cup {year} |->
                               IF y = year THEN FileName(year, args.stat_type)
                               ELSE results[y]]
                      ELSE results
        /\ season' = WithStage(year, IF out.filename # None THEN "saved"
                                     ELSE "write_error")
    /\ df' = None
    /\ SeasonOver
    /\ UNCHANGED <<args, year, response, elapsed, lastDelay, delays>>

\* a caller that starts results anew with each saved season
SaveForgettingEarlier ==
    /\ pc = "save"
    /\ \E out \in save_to_csv(files, Get(df), year, args.stat_type) :
        /\ files' = out.files
        /\ IF out.filename # None
           THEN /\ results' = IF args.multi
                              THEN [y \in {year} |-> Get(out.filename)]
                              ELSE results
                /\ season' = WithStage(year, "saved")
           ELSE /\ results' = results
                /\ season' = WithStage(year, "write_error")
    /\ df' = None
    /\ SeasonOver
    /\ UNCHANGED <<args, year, response, elapsed, lastDelay, delays>>

\* save_to_csv (lines 211-221) and the caller's lines 276-280 / 336-340
Save ==
    /\ pc = "save"
    /\ \E out \in save_to_csv(files, Get(df), year, args.stat_type) :
        /\ files' = out.files
        /\ IF out.filename # None
           THEN /\ results' = IF args.multi
                              THEN [y \in DOMAIN results \cup {year} |->
                                       IF y = year THEN Get(out.filename)
                                       ELSE results[y]]
                              ELSE results
                /\ season' = WithStage(year, "saved")
           ELSE /\ results' = results
                /\ season' = WithStage(year, "write_error")
    /\ df' = None
    /\ SeasonOver
    /\ UNCHANGED <<args, year, response, elapsed, lastDelay, delays>>

\* scrape_multiple_seasons, lines 285-287
SeasonSleep ==
    /\ pc = "season_sleep"
    /\ \E delay \in SeasonDelays :
        /\ elapsed' = IF elapsed = None THEN None ELSE Some(Get(elapsed) + delay)
        /\ lastDelay' = Some([kind |-> "season", ticks |-> delay])
    /\ delays' = delays + 1
    /\ pc' = "for"
    /\ UNCHANGED <<args, year, response, df, results, files, season, exitStatus>>

Next ==
    \/ Main /\ UNCHANGED fvars
    \/ ForSeason /\ UNCHANGED fvars
    \/ RateLimit /\ UNCHANGED fvars
    \/ Fetch /\ UNCHANGED fvars
    \/ Parse /\ UNCHANGED fvars
    \/ Save /\ UNCHANGED fvars
    \/ SeasonSleep /\ UNCHANGED fvars

Spec == Init /\ [][Next]_vars

\* a run that main lets into scrape_multiple_seasons (lines 300-311): the
\* per_game runs over 1 to MaxSeasons seasons from 1999 on, in an empty
\* directory
InitLive ==
    /\ Init
    /\ args.multi /\ args.start_year = Some(1999) /\ args.end_year # None
    /\ ValidRange(Get(args.start_year), Get(args.end_year))
    /\ args.stat_type = per_game
    /\ files = <<>>

\* the multi-season runs over a valid range when every time.sleep and every
\* requests.get returns: the program is sequential, so a step that can be
\* taken is taken
SpecLive == InitLive /\ [][Next]_vars /\ WF_vars(Next)

-----------------------------------------------------------------------------
(* The functions applied on their own *)

DefaultArgs ==
    [multi |-> FALSE, season_end_year |-> 2024, stat_type |-> per_game,
     start_year |-> None, end_year |-> None]

SeqsUpTo(S, n) == UNION {[1..k -> S] : k \in 0..n}

\* the most th elements of a thead, and the most tr elements of a tbody
MaxCols == 3
MaxRows == 2

HeaderTexts == {<<"A">>, <<" ", "B", " ">>, <<" ">>}

RowsTried ==
    {[class |-> <<>>, cells |-> <<>>],
     [class |-> <<>>, cells |-> <<<<"a">>>>],
     [class |-> <<>>, cells |-> <<<<"a">>, <<" ", "b">>>>],
     [class |-> <<"full_table">>, cells |-> <<<<"c", " ">>, <<"d">>>>],
     [class |-> <<>>, cells |-> <<<<"e">>, <<"f">>, <<"g">>>>],
     [class |-> <<"thead">>, cells |-> <<<<"A">>, <<"B">>>>]}

TablesTried ==
    {[id |-> TableId(per_game), thead |-> h, tbody |-> b] :
        h \in {None} \cup {Some(x) : x \in SeqsUpTo(HeaderTexts, MaxCols)},
        b \in {None} \cup {Some(x) : x \in SeqsUpTo(RowsTried, MaxRows)}}

\* scrape_nba_stats from line 141 on, on a 200 response holding one table
InitExtract ==
    /\ args = DefaultArgs
    /\ MainIdle
    /\ files = <<>>
    /\ fin \in {Some([stat_type |-> per_game,
                      response |-> [status |-> 200, page |-> <<t>>]]) :
                   t \in TablesTried}
    /\ fout = None

ApplyExtract ==
    /\ fin # None
    /\ fout = None
    /\ fout' = Some(ParseResponse(Get(fin).response, Get(fin).stat_type))
    /\ UNCHANGED fin
    /\ UNCHANGED mvars

SpecExtract == InitExtract /\ [][ApplyExtract]_vars

\* stat types outside the choices of argparse, as a caller of the functions
\* may pass them: "shooting", "per_minute" (a URL segment, not a choice), ""
OtherStatTypes == {<<"s","h","o","o","t","i","n","g">>, per_minute, <<>>}

\* the names derived from a valid season and a stat type; a field of the
\* result is None if the function computing it raised
InitNames ==
    /\ args = DefaultArgs
    /\ MainIdle
    /\ files = <<>>
    /\ fin \in {Some([season_end_year |-> y, stat_type |-> st]) :
                   y \in MinYear..MaxYear, st \in StatTypes \cup OtherStatTypes}
    /\ fout = None

ApplyNames ==
    /\ fin # None
    /\ fout = None
    /\ fout' = Some([url |-> Some(get_stat_url(Get(fin).season_end_year, Get(fin).stat_type)),
                     table_id |-> TableId(Get(fin).stat_type),
                     filename |-> FileName(Get(fin).season_end_year, Get(fin).stat_type)])
    /\ UNCHANGED fin
    /\ UNCHANGED mvars

SpecNames == InitNames /\ [][ApplyNames]_vars

\* the most calls of save_to_csv with the same arguments
MaxPersists == 3

FramesTried ==
    {Get(DataFrame(<<>>, <<<<"P">>, <<"T">>>>)),
     Get(DataFrame(<<<<<<"A">>, <<"1">>>>>>, <<<<"P">>, <<"T">>>>)),
     Get(DataFrame(<<<<<<"A">>, <<"1">>>>, <<<<"B">>, <<"2">>, <<"3">>>>>>,
                   <<<<"P">>, <<"T">>, <<"U">>>>))}

\* save_to_csv called again and again with one frame, season and stat type;
\* fout is the sequence of the values it returned
InitPersist ==
    /\ args = DefaultArgs
    /\ MainIdle
    /\ fin \in {Some([frame |-> f, season_end_year |-> y, stat_type |-> st]) :
                   f \in FramesTried, y \in {2000, 2024}, st \in {per_game, advanced}}
    /\ files \in {<<>>,
                  WriteFile(<<>>, FileName(Get(fin).season_end_year, Get(fin).stat_type),
                            OldRecords)}
    /\ fout = <<>>

Persist ==
    /\ fin # None
    /\ Len(fout) < MaxPersists
    /\ \E out \in save_to_csv(files, Get(fin).frame, Get(fin).season_end_year,
                              Get(fin).stat_type) :
        /\ files' = out.files
        /\ fout' = Append(fout, out.filename)
    /\ UNCHANGED <<args, pc, year, response, df, results, elapsed, lastDelay,
                   season, delays, exitStatus, fin>>

SpecPersist == InitPersist /\ [][Persist]_vars

-----------------------------------------------------------------------------
(* Properties of the run *)

MultiRun == args.multi /\ Truthy(args.start_year) /\ Truthy(args.end_year)

\* the seasons a valid multi-season run was asked for
Requested == Get(args.start_year)..Get(args.end_year)

FailedStages == {"fetch_error", "http_error", "no_table", "error", "write_error"}
FinishedStages == FailedStages \cup {"saved"}

\* the file a successful season leaves: the header record and the one row of
\* the statistics table the site serves
SeasonRecords == <<<<<<"P">>, <<"T">>>>, <<<<"A">>, <<"1">>>>>>

\* C1: when a multi-season run over a valid range [start, end] has ended,
\* every season of the range was attempted exactly once whatever failed in
\* the others, no other season was attempted, and every season that did not
\* fail has its output file, holding its table.
C1_EverySeasonAttempted ==
    (pc = "exit" /\ MultiRun
        /\ Get(args.start_year) >= 1950 /\ Get(args.end_year) <= 2025
        /\ Get(args.start_year) <= Get(args.end_year))
    => /\ DOMAIN season = Requested
       /\ \A y \in Requested :
            /\ season[y].calls = 1
            /\ season[y].stage \in FinishedStages
            /\ season[y].stage = "saved" =>
                 /\ FileName(y, args.stat_type) \in DOMAIN files
                 /\ files[FileName(y, args.stat_type)] = SeasonRecords

\* a three-season run has ended whose second season failed in the transport
\* and whose first and third seasons were saved
C1_Witness ==
    /\ pc = "exit" /\ MultiRun
    /\ \E y \in DOMAIN season :
        /\ season[y].stage = "fetch_error"
        /\ {y - 1, y + 1} \subseteq DOMAIN season
        /\ season[y - 1].stage = "saved"
        /\ season[y + 1].stage = "saved"
        /\ FileName(y + 1, args.stat_type) \in DOMAIN files

\* the request is invalid in the sense of C2
InvalidRequest ==
    IF args.multi
    THEN /\ args.start_year # None /\ args.end_year # None
         /\ \/ Get(args.start_year) < 1950
            \/ Get(args.end_year) > 2025
            \/ Get(args.start_year) > Get(args.end_year)
    ELSE args.season_end_year < 1950 \/ args.season_end_year > 2025

\* C2: a run whose request is invalid never calls scrape_nba_stats, never
\* sleeps, never fetches, never enters the season loop and leaves the
\* directory as it found it.
C2_InvalidRequestNoFetch ==
    InvalidRequest =>
        /\ season = NoSeasons
        /\ pc \in {"main", "exit"}
        /\ response = None /\ elapsed = None /\ lastDelay = None
        /\ files \in DirsTried(args)
        /\ results = <<>>

\* the runs --multi --start 2026 --end 2030 and --multi --start 2025 --end 2022
\* and a single-season run for 2026 have ended
C2_Witness ==
    /\ pc = "exit"
    /\ InvalidRequest
    /\ \/ args.multi /\ args.start_year = Some(2026) /\ args.end_year = Some(2030)
       \/ args.multi /\ args.start_year = Some(2025) /\ args.end_year = Some(2022)
       \/ ~args.multi /\ args.season_end_year = 2026

\* the run was rejected: an invalid year range, or --multi without both
\* --start and --end
Rejected ==
    \/ InvalidRequest
    \/ args.multi /\ (args.start_year = None \/ args.end_year = None)

\* C3: a rejected run ends with a non-zero exit status.
C3_RejectedExitsNonZero ==
    (pc = "exit" /\ Rejected) => Get(exitStatus) # 0

\* C4: in a multi-season run a season is entered only when it is later than
\* every season entered before and all of those are finished (saved or
\* failed); only the current season can be unfinished; the season-boundary
\* delay starts, and the loop goes on, only when the current season is finished.
C4_SeasonsInOrder ==
    /\ [](args.multi =>
            /\ \A y \in DOMAIN season :
                 /\ y <= year
                 /\ y < year => season[y].stage \in FinishedStages
            /\ pc \in {"season_sleep", "for", "exit"} =>
                 \A y \in DOMAIN season : season[y].stage \in FinishedStages)
    /\ [][args.multi =>
            \A y \in DOMAIN season' \ DOMAIN season :
                \A z \in DOMAIN season :
                    z < y /\ season[z].stage \in FinishedStages]_vars

\* the boundary delay after the second season of a run is about to start, the
\* first season having failed
C4_Witness ==
    /\ args.multi
    /\ pc = "season_sleep"
    /\ Cardinality(DOMAIN season) = 2
    /\ \E y \in DOMAIN season : y < year /\ season[y].stage \in FailedStages

\* C5: at every call of requests.get, the sleep just completed is a
\* per-request delay of at least one time-unit, and at least one time-unit
\* was slept since the previous call of requests.get.
C5_FetchesSpaced ==
    [][(pc = "get" /\ season' # season) =>
          /\ lastDelay # None
          /\ Get(lastDelay).kind = "request"
          /\ Get(lastDelay).ticks >= 1 * RandomSteps
          /\ elapsed # None => Get(elapsed) >= 1 * RandomSteps]_vars

\* the second fetch of a run is about to be made
C5_Witness ==
    /\ pc = "get"
    /\ elapsed # None
    /\ lastDelay # None
    /\ \E y \in DOMAIN season : y < year /\ season[y].gets = 1

\* the calls of requests.get made for the seasons ys
RECURSIVE SumGets(_)
SumGets(ys) ==
    IF ys = {} THEN 0
    ELSE LET y == CHOOSE z \in ys : TRUE
         IN  season[y].gets + SumGets(ys \ {y})

\* C6: no season has more than one call of requests.get, whatever its
\* outcome, and the calls of a run are at most the seasons requested.
C6_NoRetry ==
    /\ \A y \in DOMAIN season : season[y].gets <= 1
    /\ SumGets(DOMAIN season) <=
          (IF args.multi
           THEN (IF MultiRun /\ Get(args.end_year) >= Get(args.start_year)
                 THEN Get(args.end_year) - Get(args.start_year) + 1 ELSE 0)
           ELSE 1)

\* a run has ended in which one season's request raised, one got a non-200
\* status and one succeeded, each after a single request
C6_Witness ==
    /\ pc = "exit"
    /\ \E x, y, z \in DOMAIN season :
        /\ season[x].stage = "fetch_error" /\ season[x].gets = 1
        /\ season[y].stage = "http_error" /\ season[y].gets = 1
        /\ season[z].stage = "saved" /\ season[z].gets = 1

\* C7: a response is parsed for its table only if its status is 200; with
\* any other status, and when requests.get raises, the season fails with no
\* DataFrame returned, nothing saved and no file touched.
C7_FetchOutcomeClassified ==
    /\ [][(pc = "parse") =>
            IF Get(response).status = 200
            THEN season'[year].stage \in {"extracted", "no_table", "error"}
            ELSE /\ season'[year].stage = "http_error"
                 /\ df' = None
                 /\ pc' \in {"season_sleep", "exit"}
                 /\ files' = files /\ results' = results]_vars
    /\ [][(pc = "get" /\ response' = None) =>
            /\ season'[year].stage = "fetch_error"
            /\ df' = None
            /\ pc' \in {"season_sleep", "exit"}
            /\ files' = files /\ results' = results]_vars
    /\ [](pc = "save" => df # None /\ season[year].stage = "extracted")

\* a season has failed on a non-200 status, another on an exception, and a
\* third was extracted from a 200 response
C7_Witness ==
    /\ pc = "save"
    /\ \E x, y \in DOMAIN season :
        /\ season[x].stage = "http_error"
        /\ season[y].stage = "fetch_error"

\* the stages in which a season has failed before anything was saved
ScrapeFailedStages == {"fetch_error", "http_error", "no_table", "error"}

\* C11: a single-season run calls scrape_nba_stats at most once, for the
\* season asked for; when the fetch or the extraction has failed the run is
\* over, no DataFrame is held, and the directory is as the run found it
\* (save_to_csv was not called).
C11_SingleSeasonFailureEndsRun ==
    ~args.multi =>
        /\ DOMAIN season \subseteq {args.season_end_year}
        /\ \A y \in DOMAIN season :
            /\ season[y].calls <= 1
            /\ season[y].stage \in ScrapeFailedStages =>
                 /\ pc = "exit"
                 /\ exitStatus # None
                 /\ df = None
                 /\ results = <<>>
                 /\ files \in DirsTried(args)

\* a single-season run has ended on a page without the statistics table
C11_Witness ==
    /\ ~args.multi
    /\ pc = "exit"
    /\ args.season_end_year \in DOMAIN season
    /\ season[args.season_end_year].stage = "no_table"

ValidMultiRun ==
    /\ MultiRun
    /\ Get(args.start_year) >= 1950 /\ Get(args.end_year) <= 2025
    /\ Get(args.start_year) <= Get(args.end_year)

\* the seasons of the run that reached this stage
SeasonsAt(stages) == {y \in DOMAIN season : season[y].stage \in stages}

\* C12, as amended: when a multi-season run over [start, end] has finished,
\* results maps exactly the seasons that were saved to their file names; a
\* failed season has no entry, so the number of failed seasons is the
\* number of seasons of [start, end] minus the number of entries.
C12_ResultHoldsSavedSeasons ==
    (pc = "exit" /\ ValidMultiRun) =>
        /\ DOMAIN results = SeasonsAt({"saved"})
        /\ DOMAIN results \subseteq Requested
        /\ \A y \in DOMAIN results :
              /\ results[y] \in DOMAIN files
              /\ files[results[y]] = SeasonRecords
        /\ Cardinality(SeasonsAt(FailedStages)) =
              Cardinality(Requested) - Cardinality(DOMAIN results)

\* a run over three seasons has finished, one of them failed
C12_Witness ==
    /\ pc = "exit" /\ ValidMultiRun
    /\ Cardinality(Requested) = 3
    /\ Cardinality(SeasonsAt(FailedStages)) = 1
    /\ Cardinality(DOMAIN results) = 2

\* C12, as stated: when a multi-season run over [start, end] has finished,
\* results has an entry for every season of [start, end].
C12_ResultHoldsEverySeason ==
    (pc = "exit" /\ ValidMultiRun) => DOMAIN results = Requested

\* the identifier of the statistics table of each stat type that is run
TableIdExpected ==
    IF args.stat_type = <<"p","e","r","_","3","6","m","i","n">>
    THEN <<"p","e","r","_","m","i","n","u","t","e","_","s","t","a","t","s">>
    ELSE <<"p","e","r","_","g","a","m","e","_","s","t","a","t","s">>

\* the fetched page holds no table with the expected identifier
TableMissing ==
    \A i \in 1..Len(Get(response).page) :
        Get(response).page[i].id # TableIdExpected

\* C14: when a response of status 200 holds no table with the identifier
\* expected for the stat type, other tables or not, the season fails as
\* table-not-found: no DataFrame is returned, save_to_csv is not called, and
\* the season never has an entry in the result or a file written by the run.
C14_TableNotFound ==
    /\ [][(pc = "parse" /\ Get(response).status = 200 /\ TableMissing) =>
            /\ season'[year].stage = "no_table"
            /\ df' = None
            /\ pc' \in {"season_sleep", "exit"}
            /\ files' = files /\ results' = results]_vars
    /\ [](\A y \in SeasonsAt({"no_table"}) :
            /\ y \notin DOMAIN results
            /\ FileName(y, args.stat_type) \in DOMAIN files =>
                  files[FileName(y, args.stat_type)] = OldRecords)

\* a per_36min run has ended after a season whose page held only a table
\* with another identifier; the next season was saved
C14_Witness ==
    /\ pc = "exit"
    /\ args.stat_type = per_36min
    /\ \E y \in DOMAIN season :
        /\ season[y].stage = "no_table"
        /\ y + 1 \in DOMAIN season
        /\ season[y + 1].stage = "saved"

\* C16: the season delay occurs only between two consecutive seasons of a
\* multi-season run: a run that has ended over N seasons has performed N - 1
\* of them, and any other run none.
C16_DelaysBetweenSeasons ==
    pc = "exit" =>
        delays = IF ValidMultiRun THEN Cardinality(Requested) - 1 ELSE 0

\* the steps of a season: the call, the rate-limit delay, the fetch, the
\* extraction, the save, each with its failures
StageSteps ==
    {<<"none", "called">>, <<"called", "slept">>,
     <<"slept", "fetched">>, <<"slept", "fetch_error">>,
     <<"fetched", "extracted">>, <<"fetched", "http_error">>,
     <<"fetched", "no_table">>, <<"fetched", "error">>,
     <<"extracted", "saved">>, <<"extracted", "write_error">>}

\* C18, as amended: within each season the stages occur in the order
\* rate-limit delay, fetch, extract, persist; the extraction is attempted
\* only after a successful fetch and the save only after a successful
\* extraction of the same season; a season fails only in the fetch, in the
\* extraction or in the save, and once a season has failed or was saved
\* nothing of that season runs again.
C18_StagesInOrder ==
    /\ [][\A y \in DOMAIN season' :
            \/ y \in DOMAIN season /\ season'[y] = season[y]
            \/ /\ <<SeasonOf(y).stage, season'[y].stage>> \in StageSteps
               /\ y = year'
               /\ pc' = "parse" => response' # None
               /\ pc' = "save" => df' # None]_vars
    /\ [](pc \in {"sleep", "get", "parse", "save"} =>
            season[year].stage =
               CASE pc = "sleep" -> "called" [] pc = "get" -> "slept"
                 [] pc = "parse" -> "fetched" [] pc = "save" -> "extracted")

\* a multi-season run has ended in which one season failed in the save,
\* after its extraction, and the next season was saved
C18_Witness ==
    /\ pc = "exit" /\ MultiRun
    /\ \E y \in DOMAIN season :
        /\ season[y].stage = "write_error"
        /\ y + 1 \in DOMAIN season
        /\ season[y + 1].stage = "saved"

\* C18, as stated: a season fails only from the fetch or from the extraction.
C18_FailedOnlyFromFetchOrExtract ==
    [][\A y \in DOMAIN season' :
         (season'[y].stage \in FailedStages
             /\ SeasonOf(y).stage # season'[y].stage)
         => SeasonOf(y).stage \in {"slept", "fetched"}]_vars

-----------------------------------------------------------------------------
(* Properties of the functions *)

\* the one table of the page parsed
ParsedTable == Get(fin).response.page[1]

\* the number of header cells whose text is not only white space
HeaderCount ==
    Cardinality({i \in 1..Len(Get(ParsedTable.thead)) :
                   \E j \in 1..Len(Get(ParsedTable.thead)[i]) :
                       Get(ParsedTable.thead)[i][j] \notin {" ", "\n", "\t"}})

\* the body rows that are not marked thead and have more than one cell
KeptRows ==
    {i \in 1..Len(Get(ParsedTable.tbody)) :
        /\ \A c \in 1..Len(Get(ParsedTable.tbody)[i].class) :
              Get(ParsedTable.tbody)[i].class[c] # "thead"
        /\ Len(Get(ParsedTable.tbody)[i].cells) > 1}

CellsOf(i) == Len(Get(ParsedTable.tbody)[i].cells)

\* the number of cells of a frame row that hold a text
Filled(row) == Cardinality({j \in 1..Len(row) : row[j] # None})

FourDigits(n) ==
    <<DigitChar(n \div 1000), DigitChar((n \div 100) % 10),
      DigitChar((n \div 10) % 10), DigitChar(n % 10)>>

\* C9: for a season in [1950, 2025] and a stat type of the enum the file name
\* is nba_player_stats_, the year before, _, the two digits of the year modulo
\* 100, _, the stat type, .csv; for 2024 and per_game it is
\* nba_player_stats_2023_24_per_game.csv.
C9_FileName ==
    fout # None =>
        LET y == Get(fin).season_end_year
            st == Get(fin).stat_type
        IN  /\ Get(fout).filename =
                  <<"n","b","a","_","p","l","a","y","e","r","_","s","t","a","t","s","_">>
                  \o FourDigits(y - 1) \o <<"_">>
                  \o <<DigitChar((y % 100) \div 10), DigitChar(y % 10)>>
                  \o <<"_">> \o st \o <<".","c","s","v">>
            /\ (y = 2024 /\ st = per_game) =>
                  Get(fout).filename =
                     <<"n","b","a","_","p","l","a","y","e","r","_","s","t","a","t","s","_",
                       "2","0","2","3","_","2","4","_",
                       "p","e","r","_","g","a","m","e",".","c","s","v">>

\* the name for the season ending in 2000 was computed: ..._1999_00_totals.csv
C9_Witness ==
    /\ fout # None
    /\ Get(fin).season_end_year = 2000
    /\ Get(fout).filename =
          <<"n","b","a","_","p","l","a","y","e","r","_","s","t","a","t","s","_",
            "1","9","9","9","_","0","0","_","t","o","t","a","l","s",".","c","s","v">>

\* C10: when save_to_csv succeeds right after a call that succeeded with the
\* same frame, season and stat type, it returns the same name and leaves the
\* directory as the first call left it: one file under that name, holding
\* the frame's records once.
C10_PersistIdempotent ==
    /\ [][(/\ fout # <<>>
           /\ fout[Len(fout)] # None
           /\ fout' # fout
           /\ fout'[Len(fout')] # None)
          => /\ files' = files
             /\ fout'[Len(fout')] = fout[Len(fout)]]_vars
    /\ []((fout # <<>> /\ fout[Len(fout)] # None) =>
            /\ DOMAIN files = {Get(fout[Len(fout)])}
            /\ Len(files[Get(fout[Len(fout)])]) = 1 + Len(Get(fin).frame.data)
            /\ files[Get(fout[Len(fout)])][1] = Get(fin).frame.columns)

\* save_to_csv has succeeded twice in a row
C10_Witness ==
    /\ Len(fout) >= 2
    /\ fout[1] # None
    /\ fout[2] # None
    /\ Len(Get(fin).frame.data) > 0

\* C13: for a stat type outside the enum the request planner fails and
\* returns no locator.
C13_PlannerRejectsUnknown ==
    (fout # None /\ Get(fin).stat_type \notin StatTypes) => Get(fout).url = None

\* a text without white space at either end, and not empty
Trimmed(text) ==
    /\ text # <<>>
    /\ text[1] \notin {" ", "\n", "\t"}
    /\ text[Len(text)] \notin {" ", "\n", "\t"}

\* C15: the headers of a successful extraction are the trimmed, non-empty
\* texts of the header cells, and there is at least one: when the header has
\* no cell with a text the extraction fails and returns no table, whatever
\* the body holds, also when no body row is kept.
C15_EmptyHeaderFails ==
    (fout # None /\ ParsedTable.thead # None /\ ParsedTable.tbody # None) =>
        /\ Get(fout).tag = "ok" =>
              /\ Len(Get(Get(fout).df).columns) = HeaderCount
              /\ \A j \in 1..HeaderCount : Trimmed(Get(Get(fout).df).columns[j])
              /\ Get(Get(fout).df).columns # <<>>
        /\ HeaderCount = 0 => Get(fout).tag # "ok" /\ Get(fout).df = None

\* text is raw without the white space at its two ends
IsStripOf(text, raw) ==
    \E a \in 0..Len(raw) : \E b \in 0..(Len(raw) - a) :
        /\ text = SubSeq(raw, a + 1, Len(raw) - b)
        /\ \A k \in (1..a) \cup ((Len(raw) - b + 1)..Len(raw)) :
              raw[k] \in {" ", "\n", "\t"}
        /\ text = <<>> \/ Trimmed(text)

\* the place of the kept body row i among the kept rows
Rank(i) == Cardinality({k \in KeptRows : k <= i})

\* C17: the extracted rows are the body rows that are not marked thead and
\* have more than one cell, in document order, each holding the trimmed
\* texts of all its cells in cell order; rows with zero or one cell are left
\* out and never fail the extraction (with a header and no kept row it
\* succeeds).
C17_RowsKept ==
    (fout # None /\ ParsedTable.thead # None /\ ParsedTable.tbody # None) =>
        /\ Len(ExtractRows(Get(ParsedTable.tbody))) = Cardinality(KeptRows)
        /\ (KeptRows = {} /\ HeaderCount > 0) => Get(fout).tag = "ok"
        /\ Get(fout).tag = "ok" =>
              /\ Len(Get(Get(fout).df).data) = Cardinality(KeptRows)
              /\ \A i \in KeptRows : \A j \in 1..CellsOf(i) :
                    /\ Get(Get(fout).df).data[Rank(i)][j] # None
                    /\ IsStripOf(Get(Get(Get(fout).df).data[Rank(i)][j]),
                                 Get(ParsedTable.tbody)[i].cells[j])

\* a table was extracted whose body held a row of one cell, left out, before
\* a kept row one of whose texts was trimmed
C17_Witness ==
    /\ fout # None /\ Get(fout).tag = "ok"
    /\ Len(Get(ParsedTable.tbody)) = 2
    /\ CellsOf(1) = 1
    /\ KeptRows = {2}
    /\ Get(Get(fout).df).data = <<<<Some(<<"a">>), Some(<<"b">>)>>>>
    /\ Get(ParsedTable.tbody)[2].cells[2] = <<" ", "b">>

\* C19: the file name is injective over the valid requests: the name of a
\* season in [1950, 2025] and a stat type of the enum is the name of no other
\* such season and stat type.
C19_FileNameInjective ==
    (fout # None /\ Get(fin).stat_type \in StatTypes) =>
        \A y \in MinYear..MaxYear : \A st \in StatTypes :
            FileName(y, st) = Get(fout).filename =>
                y = Get(fin).season_end_year /\ st = Get(fin).stat_type

\* the name for 1950 and advanced was computed; 1951 and 2025, and the other
\* stat types, have other names
C19_Witness ==
    /\ fout # None
    /\ Get(fin).season_end_year = MinYear
    /\ Get(fin).stat_type = advanced
    /\ Get(fout).filename # FileName(MinYear + 1, advanced)
    /\ Get(fout).filename # FileName(MaxYear, advanced)
    /\ Get(fout).filename # FileName(MinYear, totals)

\* the URL segment of a locator: what stands between NBA_<year>_ and .html
SegmentOf(url) == SubSeq(url, Len(UrlPrefix) + 6, Len(url) - 5)

\* C20: for every stat type of the enum the table identifier the extractor
\* looks for is the URL segment of the planner's locator followed by _stats:
\* per_minute and per_minute_stats for per_36min, per_poss and per_poss_stats
\* for per_100poss.
C20_TableIdMatchesSegment ==
    (fout # None /\ Get(fin).stat_type \in StatTypes) =>
        /\ Get(fout).table_id =
              SegmentOf(Get(Get(fout).url)) \o <<"_","s","t","a","t","s">>
        /\ Get(fin).stat_type = <<"p","e","r","_","3","6","m","i","n">> =>
              /\ SegmentOf(Get(Get(fout).url)) = <<"p","e","r","_","m","i","n","u","t","e">>
              /\ Get(fout).table_id = <<"p","e","r","_","m","i","n","u","t","e","_","s","t","a","t","s">>
        /\ Get(fin).stat_type = <<"p","e","r","_","1","0","0","p","o","s","s">> =>
              /\ SegmentOf(Get(Get(fout).url)) = <<"p","e","r","_","p","o","s","s">>
              /\ Get(fout).table_id = <<"p","e","r","_","p","o","s","s","_","s","t","a","t","s">>

\* the locator and the table identifier of per_100poss were computed
C20_Witness ==
    /\ fout # None
    /\ Get(fin).stat_type = <<"p","e","r","_","1","0","0","p","o","s","s">>
    /\ Get(fout).table_id = <<"p","e","r","_","p","o","s","s","_","s","t","a","t","s">>
    /\ Get(Get(fout).url) =
          UrlPrefix \o <<"2","0","2","4","_">> \o <<"p","e","r","_","p","o","s","s">> \o <<".","h","t","m","l">>

-----------------------------------------------------------------------------
(* Properties of the result and of termination *)

\* the file name of season y, written out
FileNameExpected(y) ==
    <<"n","b","a","_","p","l","a","y","e","r","_","s","t","a","t","s","_">>
    \o FourDigits(y - 1) \o <<"_">>
    \o <<DigitChar((y % 100) \div 10), DigitChar(y % 10)>>
    \o <<"_">> \o args.stat_type \o <<".","c","s","v">>

\* C21: at every point of a multi-season run a year is a key of results if
\* and only if its fetch, its extraction and its file write have all
\* succeeded in this run; its value is the file name of that season; every
\* key lies in [start, end]; keys are only added, never removed or rewritten.
C21_ResultsKeys ==
    /\ [](args.multi =>
            /\ DOMAIN results = SeasonsAt({"saved"})
            /\ \A y \in DOMAIN results :
                  /\ results[y] = FileNameExpected(y)
                  /\ season[y].gets = 1
                  /\ results[y] \in DOMAIN files
                  /\ y >= Get(args.start_year) /\ y <= Get(args.end_year))
    /\ [][args.multi =>
            /\ DOMAIN results \subseteq DOMAIN results'
            /\ \A y \in DOMAIN results : results'[y] = results[y]]_vars

\* in the third season of a run, before its save: the first season has its
\* key, the second, whose write failed, has none
C21_Witness ==
    /\ args.multi /\ pc = "save"
    /\ year - 2 \in DOMAIN results
    /\ year - 1 \in DOMAIN season
    /\ season[year - 1].stage = "write_error"
    /\ DOMAIN results = {year - 2}

\* C22: when every delay and every request returns, a multi-season run over
\* a valid range [start, end] ends, and at its end every season of the range
\* was attempted exactly once, with exactly one call of requests.get each:
\* end - start + 1 attempts and as many requests, whatever failed.
C22_MultiRunTerminates ==
    ValidMultiRun ~>
        /\ ValidMultiRun
        /\ pc = "exit"
        /\ DOMAIN season = Requested
        /\ \A y \in Requested : season[y].calls = 1 /\ season[y].gets = 1
        /\ SumGets(DOMAIN season) = Get(args.end_year) - Get(args.start_year) + 1

\* a run over three seasons has ended: the first got a non-200 status, the
\* second was saved, the third had no statistics table
C22_Witness ==
    /\ pc = "exit" /\ ValidMultiRun
    /\ Get(args.end_year) = Get(args.start_year) + 2
    /\ season[Get(args.start_year)].stage = "http_error"
    /\ season[Get(args.start_year) + 1].stage = "saved"
    /\ season[Get(args.end_year)].stage = "no_table"
    /\ SumGets(DOMAIN season) = 3

=============================================================================
